---- MODULE Spec2Model ----
\* PTY session manager of src-tauri/src/pty.rs: the registry
\* PtyManager.instances behind one Mutex, the five operations on it
\* (pty_spawn, pty_write, pty_resize, pty_kill, kill_all), and the reader
\* thread each successful pty_spawn starts.
\*
\* Command handlers run on caller threads (Callers).  A handler's steps are
\* the points where another thread can interleave: taking the registry
\* lock, the critical section (lookup, syscall, unlock, return), and for
\* pty_spawn the allocation before the lock and the thread start after it.
\* A handler's invocation is part of its first step.
\* Mutex poisoning is not modelled: no code path panics while holding the
\* lock, so lock() always returns Ok.
EXTENDS Integers, Sequences, FiniteSets, TLC

\* ---------------------------------------------------------------- bounds
MaxOps == 2          \* commands that create or reach a session, in one behaviour
MaxOut == 1          \* bytes the readers read from the terminals, in total
PairOps == 1         \* the same two, in a behaviour that starts with two sessions
PairOut == 1
OneOps == 2          \* commands in a behaviour that starts with one session
LiveOps == 1         \* commands in a behaviour under fair scheduling
WaitOps == 2         \* commands in a behaviour where handlers wait for the lock
InputCap == 6        \* bytes a terminal's input queue holds before a write blocks
ReadersOut == 3      \* bytes read in a behaviour of the reader threads alone

\* ------------------------------------------------------------- constants
BufLen == 4096       \* let mut buf = [0u8; 4096]

Ids == {"a", "b"}                       \* TerminalId values the host uses
Callers == {1, 2}                       \* the host's threads that run command handlers
Free == 0                               \* no thread holds the mutex
SpawnGeoms == {<<24, 80>>}              \* (rows, cols) arguments of pty_spawn
ResizeGeoms == {<<40, 120>>}            \* (rows, cols) arguments of pty_resize
Bytes == {104, 255}                     \* 'h' and a byte that is never valid UTF-8
WriteInputs == {<<104, 10>>}            \* data arguments of pty_write: "h\n"
Sessions == 1..MaxOps                   \* PTY pairs / children ever created
None == 0                               \* Option::None for a registry lookup

NotFoundErr == "Terminal not found"
IoErr == "io error"
OkRes == "Ok"
NoRet == <<"none", "none">>

VARIABLES
    instances,  \* PtyManager.instances: TerminalId -> PtyInstance (a session) or None
    lock,       \* the thread holding the Mutex around instances, or Free
    pc,         \* each caller thread's position in its handler
    op,         \* each caller thread's handler arguments and locals
    ret,        \* the command whose handler returned last and its Result; none
                \* once another handler starts
    nops,       \* number of commands so far that created or reached a session,
                \* counted against MaxOps
    nsess,      \* number of sessions created so far
    sessId,     \* the id a session was spawned with (its data_event/exit_event names)
    child,      \* the shell process of a session
    size,       \* PTY geometry of a session
    written,    \* bytes that reached a session's writer
    killReq,    \* the child.kill() calls made on a session: the handler of each
    reader,     \* position of a session's reader thread
    chunks,     \* the chunks a session's reader has read, in order
    nread,      \* number of bytes all the readers have read, counted against MaxOut
    events      \* what a session's reader thread has passed to app.emit, in order

vars == <<instances, lock, pc, op, ret, nops, nsess, sessId, child, size,
          written, killReq, reader, chunks, nread, events>>

regVars == <<instances, lock>>
sessVars == <<nsess, sessId, child, size, written, killReq>>
readerVars == <<reader, chunks, nread, events>>

\* ------------------------------------------------------------- helpers
Min(a, b) == IF a < b THEN a ELSE b

NoOp == [kind |-> "none", id |-> "a", geom |-> <<0, 0>>, data |-> <<>>, sess |-> None]

\* ---- faulty variants of the definitions below, used to test the properties
\* a lookup that falls back to some entry when the key is absent
HashMapGet_AnyEntry(m, id) ==
    LET r == {m[i] : i \in Ids} \ {None}
    IN IF m[id] # None \/ r = {} THEN m[id] ELSE CHOOSE s \in r : TRUE
\* a remove that leaves the entry in place
HashMapRemove_Keeps(m, id) == m
\* a remove that clears the map
HashMapRemove_All(m, id) == [i \in Ids |-> None]
\* a drain that leaves the entries in place
HashMapDrain_Keeps(m) == m

\* an insert that keeps the entry of a key that is present
HashMapInsert_IfAbsent(m, id, s) == IF m[id] # None THEN m ELSE [m EXCEPT ![id] = s]

\* HashMap operations on the registry
HashMapNew == [i \in Ids |-> None]
HashMapInsert(m, id, s) == [m EXCEPT ![id] = s]
HashMapGet(m, id) == m[id]
HashMapRemove(m, id) == [m EXCEPT ![id] = None]
HashMapDrain(m) == [i \in Ids |-> None]
Drained(m) == {m[i] : i \in Ids} \ {None}

\* a data event name built from another id than the session's
data_event_OtherId(id) == <<"pty", "data", CHOOSE j \in Ids : j # id>>

\* format!("pty:data:{}", id) and format!("pty:exit:{}", id)
data_event(id) == <<"pty", "data", id>>
exit_event(id) == <<"pty", "exit", id>>

\* String::from_utf8_lossy on the byte alphabet of the model: an ASCII byte
\* decodes to itself, 0xFF to U+FFFD.
Utf8Lossy(b) == IF b < 128 THEN b ELSE 65533
from_utf8_lossy(bs) == [i \in 1..Len(bs) |-> Utf8Lossy(bs[i])]

\* an emit that delivers the newest event first
Emit_Front(log, name, payload) == <<[name |-> name, payload |-> payload]>> \o log

\* app.emit(name, payload)
Emit(log, name, payload) == Append(log, [name |-> name, payload |-> payload])

\* ---------------------------------------------------------------- Init
Init ==
    /\ instances = HashMapNew
    /\ lock = Free
    /\ pc = [c \in Callers |-> "idle"]
    /\ op = [c \in Callers |-> NoOp]
    /\ ret = NoRet
    /\ nops = 0
    /\ nsess = 0
    /\ sessId = [s \in Sessions |-> "a"]
    /\ child = [s \in Sessions |-> "none"]
    /\ size = [s \in Sessions |-> <<0, 0>>]
    /\ written = [s \in Sessions |-> <<>>]
    /\ killReq = [s \in Sessions |-> <<>>]
    /\ reader = [s \in Sessions |-> "none"]
    /\ chunks = [s \in Sessions |-> <<>>]
    /\ nread = 0
    /\ events = [s \in Sessions |-> <<>>]

\* ------------------------------------------------- handler invocation
Return(c, r) ==
    /\ pc' = [pc EXCEPT ![c] = "idle"]
    /\ op' = [op EXCEPT ![c] = NoOp]
    /\ ret' = <<op[c].kind, r>>

Goto(c, l) ==
    /\ pc' = [pc EXCEPT ![c] = l]
    /\ UNCHANGED <<op, ret>>

\* Thread c starts handling a command: the host invokes it (or run() calls
\* kill_all on exit).  A command that creates a session or finds one in the
\* registry counts against MaxOps; one that fails before it creates
\* anything, or finds the registry without its session, changes nothing and
\* can always be invoked.  The host runs a handler on its first idle thread.
Invoke(c, counted) ==
    /\ pc[c] = "idle"
    /\ \A d \in Callers : d < c => pc[d] # "idle"
    /\ counted => nops < MaxOps
    /\ nops' = IF counted THEN nops + 1 ELSE nops
    /\ ret' = NoRet

\* the sessions a command's critical section reaches
Reached(cmd) ==
    IF cmd.kind = "kill_all" THEN {instances[i] : i \in Ids} \ {None}
    ELSE {instances[cmd.id]} \ {None}

SpawnCmds == {[NoOp EXCEPT !.kind = "spawn", !.id = i, !.geom = g] : i \in Ids, g \in SpawnGeoms}
WriteCmds == {[NoOp EXCEPT !.kind = "write", !.id = i, !.data = d] : i \in Ids, d \in WriteInputs}
ResizeCmds == {[NoOp EXCEPT !.kind = "resize", !.id = i, !.geom = g] : i \in Ids, g \in ResizeGeoms}
KillCmds == {[NoOp EXCEPT !.kind = "kill", !.id = i] : i \in Ids}
KillAllCmds == {[NoOp EXCEPT !.kind = "kill_all"]}

\* let instances = state.instances.lock(), the first statement of the
\* handler: it blocks until the mutex is free
Lock(c, cmds, to) ==
    /\ \E cmd \in cmds :
         /\ Invoke(c, Reached(cmd) # {})
         /\ op' = [op EXCEPT ![c] = cmd]
    /\ lock = Free
    /\ lock' = c
    /\ pc' = [pc EXCEPT ![c] = to]
    /\ UNCHANGED <<instances, sessVars, readerVars>>

\* ------------------------------------------------------------ pty_spawn
\* a failing spawn that unregisters the id it was called with
pty_spawn_err_unregisters(c) ==
    /\ pc[c] = "idle"
    /\ \E i \in Ids : instances' = [instances EXCEPT ![i] = None]
    /\ ret' = <<"spawn", IoErr>>
    /\ UNCHANGED <<lock, pc, op, nops, sessVars, readerVars>>

\* openpty, spawn_command, take_writer or try_clone_reader fails: `?` drops
\* everything allocated so far and returns the error, before the registry
\* is locked and before the reader thread is started.  A shell left behind
\* by a failure after spawn_command has no handle in the program and is not
\* tracked.
pty_spawn_err(c) ==
    /\ pc[c] = "idle"
    /\ \A d \in Callers : d < c => pc[d] # "idle"
    /\ ret' = <<"spawn", IoErr>>
    /\ UNCHANGED <<regVars, pc, op, nops, sessVars, readerVars>>

\* openpty, spawn_command, take_writer and try_clone_reader all succeed:
\* the handler holds a new child and its handles and goes on to the lock
pty_spawn_alloc(c) ==
    /\ \E cmd \in SpawnCmds :
         LET s == nsess + 1 IN
         /\ s \in Sessions
         /\ Invoke(c, TRUE)
         /\ nsess' = s
         /\ sessId' = [sessId EXCEPT ![s] = cmd.id]
         /\ child' = [child EXCEPT ![s] = "running"]
         /\ size' = [size EXCEPT ![s] = cmd.geom]
         /\ op' = [op EXCEPT ![c] = [cmd EXCEPT !.sess = s]]
         /\ pc' = [pc EXCEPT ![c] = "spawn_lock"]
         /\ UNCHANGED <<written, killReq>>
    /\ UNCHANGED <<regVars, readerVars>>

\* a lock() that returns although another thread holds the Mutex
pty_spawn_lock_NoWait(c) ==
    /\ pc[c] = "spawn_lock"
    /\ lock' = c
    /\ Goto(c, "spawn_insert")
    /\ UNCHANGED <<instances, nops, sessVars, readerVars>>

\* let mut instances = state.instances.lock()
pty_spawn_lock(c) ==
    /\ pc[c] = "spawn_lock"
    /\ lock = Free
    /\ lock' = c
    /\ Goto(c, "spawn_insert")
    /\ UNCHANGED <<instances, nops, sessVars, readerVars>>

\* instances.insert(id, PtyInstance {..}); the guard drops at the block's end
pty_spawn_insert(c) ==
    /\ pc[c] = "spawn_insert"
    /\ lock = c
    /\ instances' = HashMapInsert(instances, op[c].id, op[c].sess)
    /\ lock' = Free
    /\ Goto(c, "spawn_thread")
    /\ UNCHANGED <<nops, sessVars, readerVars>>

\* a pty_spawn that starts the reader thread only if its entry is still in
\* the registry
pty_spawn_thread_IfRegistered(c) ==
    /\ pc[c] = "spawn_thread"
    /\ reader' = [reader EXCEPT ![op[c].sess] =
                     IF instances[op[c].id] = op[c].sess THEN "reading" ELSE @]
    /\ Return(c, OkRes)
    /\ UNCHANGED <<regVars, nops, sessVars, chunks, nread, events>>

\* std::thread::spawn(move || ..); Ok(())
pty_spawn_thread(c) ==
    /\ pc[c] = "spawn_thread"
    /\ reader' = [reader EXCEPT ![op[c].sess] = "reading"]
    /\ Return(c, OkRes)
    /\ UNCHANGED <<regVars, nops, sessVars, chunks, nread, events>>

\* ------------------------------------------------------------ pty_write
pty_write_lock(c) == Lock(c, WriteCmds, "write_cs")

WriteOutcomes == {"ok", "write_all_err", "flush_err"}

\* what reaches the writer: all of data, or a proper prefix when write_all fails
Delivered(data, o) ==
    IF o = "write_all_err"
    THEN {SubSeq(data, 1, k) : k \in 0..(Len(data) - 1)}
    ELSE {data}

WriteResult(o) == IF o = "ok" THEN OkRes ELSE IoErr

\* writer.write_all is a blocking call: while the child runs and has not
\* read what was written before, the terminal's input queue has room for
\* InputCap bytes, and a write of more does not return.  The child of the
\* model reads no input.
Blocks(s, data) == child[s] = "running" /\ Len(written[s]) + Len(data) > InputCap

pty_write(c) ==
    /\ pc[c] = "write_cs"
    /\ lock = c
    /\ LET s == HashMapGet(instances, op[c].id) IN
       IF s = None
       THEN /\ Return(c, NotFoundErr)
            /\ UNCHANGED written
       ELSE \E o \in WriteOutcomes : \E d \in Delivered(op[c].data, o) :
            /\ ~Blocks(s, op[c].data)
            /\ written' = [written EXCEPT ![s] = @ \o d]
            /\ Return(c, WriteResult(o))
    /\ lock' = Free
    /\ UNCHANGED <<instances, nops, nsess, sessId, child, size, killReq, readerVars>>

\* ----------------------------------------------------------- pty_resize
pty_resize_lock(c) == Lock(c, ResizeCmds, "resize_cs")

\* a resize that takes effect although it reports failure
Resized_Always(old, new, ok) == new

Resized(old, new, ok) == IF ok THEN new ELSE old

pty_resize(c) ==
    /\ pc[c] = "resize_cs"
    /\ lock = c
    /\ LET s == HashMapGet(instances, op[c].id) IN
       IF s = None
       THEN /\ Return(c, NotFoundErr)
            /\ UNCHANGED size
       ELSE \E ok \in BOOLEAN :
            /\ size' = [size EXCEPT ![s] = Resized(@, op[c].geom, ok)]
            /\ Return(c, IF ok THEN OkRes ELSE IoErr)
    /\ lock' = Free
    /\ UNCHANGED <<instances, nops, nsess, sessId, child, written, killReq, readerVars>>

\* ------------------------------------------------------------- pty_kill
pty_kill_lock(c) == Lock(c, KillCmds, "kill_cs")

\* child.kill(): a running child is gone when the call succeeds
Killed(st, ok) == IF st = "running" /\ ok THEN "exited" ELSE st

\* let _ = instance.child.kill() by handler h on every session of ss; oks
\* are those the call succeeds on
KillChildren(h, ss, oks) ==
    /\ child' = [s \in Sessions |-> IF s \in ss THEN Killed(child[s], s \in oks) ELSE child[s]]
    /\ killReq' = [s \in Sessions |-> IF s \in ss THEN Append(killReq[s], h) ELSE killReq[s]]

pty_kill(c) ==
    /\ pc[c] = "kill_cs"
    /\ lock = c
    /\ LET s == HashMapGet(instances, op[c].id) IN
       /\ instances' = HashMapRemove(instances, op[c].id)
       /\ IF s = None
          THEN UNCHANGED <<child, killReq>>
          ELSE \E oks \in SUBSET {s} : KillChildren("kill", {s}, oks)
    /\ Return(c, OkRes)
    /\ lock' = Free
    /\ UNCHANGED <<nops, nsess, sessId, size, written, readerVars>>

\* ------------------------------------------------------------- kill_all
kill_all_lock(c) == Lock(c, KillAllCmds, "kill_all_cs")

kill_all(c) ==
    /\ pc[c] = "kill_all_cs"
    /\ lock = c
    /\ instances' = HashMapDrain(instances)
    /\ \E oks \in SUBSET Drained(instances) : KillChildren("kill_all", Drained(instances), oks)
    /\ pc' = [pc EXCEPT ![c] = "idle"]
    /\ op' = [op EXCEPT ![c] = NoOp]
    /\ ret' = NoRet
    /\ lock' = Free
    /\ UNCHANGED <<nops, nsess, sessId, size, written, readerVars>>

\* ------------------------------------------------- the child process
\* the shell exits on its own (the host typed `exit`, or it crashed)
child_exit(s) ==
    /\ child[s] = "running"
    /\ child' = [child EXCEPT ![s] = "exited"]
    /\ UNCHANGED <<regVars, pc, op, ret, nops, nsess, sessId, size, written,
                   killReq, readerVars>>

\* ------------------------------------------------- the reader thread

\* what reader.read(&mut buf) can put in buf[..n], n > 0: terminal output
\* of at most buf.len() bytes
Chunks == {<<b>> : b \in Bytes}
          \cup {<<b1, b2>> : b1 \in Bytes, b2 \in Bytes}
ReadChunks == {ch \in Chunks : Len(ch) <= Min(BufLen, MaxOut - nread)}

\* a loop that ends the thread on a read error, skipping the exit event
AfterRead_ErrSilent(res) ==
    IF res = "data" THEN "reading" ELSE IF res = "err" THEN "done" ELSE "exited"
\* a thread that goes back to reading after the exit event
AfterExit_Loops == "reading"

\* a loop that no result of read breaks
AfterRead_NeverBreaks(res) == "reading"

\* where the loop goes after reader.read returned res
AfterRead(res) == IF res = "data" THEN "reading" ELSE "exited"

\* where the thread goes after app.emit(&exit_event, ())
AfterExit == "done"

\* One iteration of the loop.  reader.read(&mut buf) returns n > 0 bytes
\* while the terminal holds output (the child wrote it; output written
\* before the child died can still be read after), and the iteration emits
\* one data event; once the child is gone it can return Ok(0) or Err, and
\* the loop breaks; otherwise it blocks.
reader_read(s) ==
    /\ reader[s] = "reading"
    /\ \/ \E buf \in ReadChunks :
             /\ chunks' = [chunks EXCEPT ![s] = Append(@, buf)]
             /\ nread' = nread + Len(buf)
             /\ events' = [events EXCEPT ![s] = Emit(@, data_event(sessId[s]), from_utf8_lossy(buf))]
             /\ reader' = [reader EXCEPT ![s] = AfterRead("data")]
       \/ /\ child[s] = "exited"
          /\ \E res \in {"eof", "err"} :
               reader' = [reader EXCEPT ![s] = AfterRead(res)]
          /\ UNCHANGED <<chunks, nread, events>>
    /\ UNCHANGED <<regVars, pc, op, ret, nops, sessVars>>

\* a reader thread that unregisters its id when it emits the exit event
reader_exit_unregisters(s) ==
    /\ reader[s] = "exited"
    /\ lock = Free
    /\ events' = [events EXCEPT ![s] = Append(@, [name |-> <<"pty", "exit", sessId[s]>>, payload |-> <<>>])]
    /\ reader' = [reader EXCEPT ![s] = "done"]
    /\ instances' = [instances EXCEPT ![sessId[s]] = None]
    /\ UNCHANGED <<lock, pc, op, ret, nops, sessVars, chunks, nread>>

\* let _ = app.emit(&exit_event, ()) after the loop
reader_exit(s) ==
    /\ reader[s] = "exited"
    /\ events' = [events EXCEPT ![s] = Emit(@, exit_event(sessId[s]), <<>>)]
    /\ reader' = [reader EXCEPT ![s] = AfterExit]
    /\ UNCHANGED <<regVars, pc, op, ret, nops, sessVars, chunks, nread>>

\* ----------------------------------------------------------------- Next
Next ==
    \/ \E c \in Callers : pty_spawn_err(c)
    \/ \E c \in Callers : pty_spawn_alloc(c)
    \/ \E c \in Callers : pty_spawn_lock(c)
    \/ \E c \in Callers : pty_spawn_insert(c)
    \/ \E c \in Callers : pty_spawn_thread(c)
    \/ \E c \in Callers : pty_write_lock(c)
    \/ \E c \in Callers : pty_write(c)
    \/ \E c \in Callers : pty_resize_lock(c)
    \/ \E c \in Callers : pty_resize(c)
    \/ \E c \in Callers : pty_kill_lock(c)
    \/ \E c \in Callers : pty_kill(c)
    \/ \E c \in Callers : kill_all_lock(c)
    \/ \E c \in Callers : kill_all(c)
    \/ \E s \in Sessions : child_exit(s)
    \/ \E s \in Sessions : reader_read(s)
    \/ \E s \in Sessions : reader_exit(s)

Spec == Init /\ [][Next]_vars

\* The state after the first k of pty_spawn("a", ..), pty_spawn("b", ..)
\* have returned Ok, one after the other, on a new PtyManager: k sessions
\* are registered under distinct ids and their reader threads are in their
\* loops.  The counters start where `ops` more commands that create or
\* reach a session, and `out` more bytes of terminal output, follow; inp
\* is what the host has written to the first session since.
Spawned(k, ops, out, inp) ==
    /\ instances = [i \in Ids |-> IF i = "a" THEN 1 ELSE IF k = 2 THEN 2 ELSE None]
    /\ lock = Free
    /\ pc = [c \in Callers |-> "idle"]
    /\ op = [c \in Callers |-> NoOp]
    /\ ret = <<"spawn", OkRes>>
    /\ nops = MaxOps - ops
    /\ nsess = k
    /\ sessId = [s \in Sessions |-> IF s = 2 THEN "b" ELSE "a"]
    /\ child = [s \in Sessions |-> IF s <= k THEN "running" ELSE "none"]
    /\ \E g \in SpawnGeoms : size = [s \in Sessions |-> IF s <= k THEN g ELSE <<0, 0>>]
    /\ written = [s \in Sessions |-> IF s = 1 THEN inp ELSE <<>>]
    /\ killReq = [s \in Sessions |-> <<>>]
    /\ reader = [s \in Sessions |-> IF s <= k THEN "reading" ELSE "none"]
    /\ chunks = [s \in Sessions |-> <<>>]
    /\ nread = MaxOut - out
    /\ events = [s \in Sessions |-> <<>>]


\* one session, then OneOps commands; the terminals stay silent
InitOne == Spawned(1, OneOps, 0, <<>>)
SpecOne == InitOne /\ [][Next]_vars

\* Scheduling: a thread that can take its next step takes it.  A reader
\* thread's read returns once the child is gone; a handler that has the
\* lock finishes its critical section; a pty_spawn past its insert starts
\* the reader thread; a pty_spawn waiting for the Mutex gets it if it is
\* free again and again.
FairReaders ==
    \A s \in Sessions : WF_vars(reader_read(s)) /\ WF_vars(reader_exit(s))
FairHandlers ==
    \A c \in Callers :
        /\ SF_vars(pty_spawn_lock(c))
        /\ WF_vars(pty_spawn_insert(c))
        /\ WF_vars(pty_spawn_thread(c))
        /\ WF_vars(pty_write(c))
        /\ WF_vars(pty_resize(c))
        /\ WF_vars(pty_kill(c))
        /\ WF_vars(kill_all(c))

\* one session, then LiveOps commands, under fair scheduling; the
\* terminal stays silent
InitLive == Spawned(1, LiveOps, 0, <<>>)
SpecLive == InitLive /\ [][Next]_vars /\ FairReaders /\ FairHandlers

\* The handlers of pty_write, pty_resize, pty_kill and kill_all with their
\* wait for the Mutex made a step of its own: a command is called (Call),
\* blocks in lock() until the Mutex is free (Acquire), and then runs its
\* critical section.  NextWait is the host calling these four commands on
\* the sessions there are.
Call(c, cmds, to) ==
    /\ \E cmd \in cmds :
         /\ Invoke(c, Reached(cmd) # {})
         /\ op' = [op EXCEPT ![c] = cmd]
    /\ pc' = [pc EXCEPT ![c] = to]
    /\ UNCHANGED <<regVars, sessVars, readerVars>>

Acquire(c, from, to) ==
    /\ pc[c] = from
    /\ lock = Free
    /\ lock' = c
    /\ Goto(c, to)
    /\ UNCHANGED <<instances, nops, sessVars, readerVars>>

pty_write_call(c) == Call(c, WriteCmds, "write_lock")
pty_write_acquire(c) == Acquire(c, "write_lock", "write_cs")
pty_resize_call(c) == Call(c, ResizeCmds, "resize_lock")
pty_resize_acquire(c) == Acquire(c, "resize_lock", "resize_cs")
pty_kill_call(c) == Call(c, KillCmds, "kill_lock")
pty_kill_acquire(c) == Acquire(c, "kill_lock", "kill_cs")
kill_all_call(c) == Call(c, KillAllCmds, "kill_all_lock")
kill_all_acquire(c) == Acquire(c, "kill_all_lock", "kill_all_cs")

NextWait ==
    \/ \E c \in Callers : pty_write_call(c)
    \/ \E c \in Callers : pty_write_acquire(c)
    \/ \E c \in Callers : pty_write(c)
    \/ \E c \in Callers : pty_resize_call(c)
    \/ \E c \in Callers : pty_resize_acquire(c)
    \/ \E c \in Callers : pty_resize(c)
    \/ \E c \in Callers : pty_kill_call(c)
    \/ \E c \in Callers : pty_kill_acquire(c)
    \/ \E c \in Callers : pty_kill(c)
    \/ \E c \in Callers : kill_all_call(c)
    \/ \E c \in Callers : kill_all_acquire(c)
    \/ \E c \in Callers : kill_all(c)
    \/ \E s \in Sessions : child_exit(s)
    \/ \E s \in Sessions : reader_read(s)
    \/ \E s \in Sessions : reader_exit(s)

\* two sessions, then PairOps of these commands and PairOut bytes
InitPair == Spawned(2, PairOps, PairOut, <<>>)
SpecPair == InitPair /\ [][NextWait]_vars

\* Scheduling with the waits: a thread blocked in lock() gets the Mutex if
\* it is free again and again, and a handler that has the lock finishes
\* its critical section when the call it makes returns.
FairWait ==
    /\ FairReaders
    /\ \A c \in Callers :
        /\ SF_vars(pty_write_acquire(c))
        /\ SF_vars(pty_resize_acquire(c))
        /\ SF_vars(pty_kill_acquire(c))
        /\ SF_vars(kill_all_acquire(c))
        /\ WF_vars(pty_write(c))
        /\ WF_vars(pty_resize(c))
        /\ WF_vars(pty_kill(c))
        /\ WF_vars(kill_all(c))

\* what the host has written to a session whose child reads nothing, when
\* the terminal's input queue is full
FullInput == [i \in 1..InputCap |-> IF i % 2 = 1 THEN 104 ELSE 10]

\* two sessions, the input queue of the first one full, then WaitOps
\* commands; the terminals stay silent
InitWait == Spawned(2, WaitOps, 0, FullInput)
SpecWait == InitWait /\ [][NextWait]_vars /\ FairWait

\* The reader threads of two sessions and their children, while the host
\* calls no command: ReadersOut bytes of terminal output are read.
InitReaders == Spawned(2, 0, ReadersOut, <<>>)
NextReaders ==
    \/ \E s \in Sessions : child_exit(s)
    \/ \E s \in Sessions : reader_read(s)
    \/ \E s \in Sessions : reader_exit(s)
SpecReaders == InitReaders /\ [][NextReaders]_vars

TypeOK ==
    /\ instances \in [Ids -> Sessions \cup {None}]
    /\ lock \in Callers \cup {Free}
    /\ nsess \in 0..MaxOps
    /\ \A s \in Sessions : reader[s] \in {"none", "reading", "exited", "done"}
    /\ \A s \in Sessions : child[s] \in {"none", "running", "exited"}

\* ======================================================================
\*                       Properties of the session manager
\* ======================================================================
InRegistry(s) == \E i \in Ids : instances[i] = s
IsData(e) == e.name[2] = "data"
IsExit(e) == e.name[2] = "exit"
DataAt(s) == {i \in 1..Len(events[s]) : IsData(events[s][i])}
ExitAt(s) == {i \in 1..Len(events[s]) : IsExit(events[s][i])}
\* this step is thread c leaving the critical section `cs` and returning
Returns(c, cs) == pc[c] = cs /\ pc'[c] = "idle"
\* this step inserts id into the registry, which did not hold it
Inserted(id) == instances[id] = None /\ instances'[id] # None
\* this step is the insert of a pty_spawn(id)
SpawnInserts(id) ==
    \E c \in Callers : pc[c] = "spawn_insert" /\ op[c].id = id /\ pc'[c] = "spawn_thread"

\* ------------------------------------------------------------------ C1
\* C1 as stated: once an exit event addressed to an identifier has been
\* emitted, no data event addressed to that identifier is emitted any more.
ExitEmitted(id) == \E s \in Sessions : \E i \in ExitAt(s) : events[s][i].name = exit_event(id)
EmitsData(id) ==
    \E s \in Sessions :
        /\ Len(events'[s]) = Len(events[s]) + 1
        /\ events'[s][Len(events'[s])].name = data_event(id)
C1_ExitLastPerIdentifier ==
    [][\A id \in Ids : ExitEmitted(id) => ~EmitsData(id)]_vars

\* C1 amended: within one session (one reader thread) the exit event is the
\* last event: the thread emits at most one, no data event of the thread
\* follows it, and every event of the thread is addressed to its identifier.
C1_ExitLastPerSession ==
    \A s \in Sessions :
        /\ \A i \in ExitAt(s) : i = Len(events[s])
        /\ \A i \in ExitAt(s) : events[s][i].name = exit_event(sessId[s])
        /\ \A i \in DataAt(s) : events[s][i].name = data_event(sessId[s])

\* a session that emitted data and then its exit event
C1_Witness ==
    \E s \in Sessions :
        /\ Len(events[s]) >= 2
        /\ IsData(events[s][1])
        /\ IsExit(events[s][Len(events[s])])

\* ------------------------------------------------------------------ C2
\* C2: a session is in the registry iff a pty_spawn allocated and inserted
\* it and no pty_kill or kill_all removed it.  A session whose pty_spawn has
\* not reached its insert yet is left out of the comparison.
BeforeInsert(s) ==
    \E c \in Callers : pc[c] \in {"spawn_lock", "spawn_insert"} /\ op[c].sess = s
C2_RegisteredIffLive ==
    \A s \in Sessions :
        ~BeforeInsert(s) =>
            (InRegistry(s) <=> (s <= nsess /\ killReq[s] = <<>>))

\* ------------------------------------------------------------------ C3
\* C3: pty_write and pty_resize on an id that is not in the registry return
\* "Terminal not found" and change nothing: not the registry, nor any
\* session's writer, geometry or child, nor any reader thread or event.
C3_NotFoundNoEffect ==
    [][\A c \in Callers :
         (Returns(c, "write_cs") \/ Returns(c, "resize_cs")) /\ instances[op[c].id] = None
         => /\ ret' = <<op[c].kind, NotFoundErr>>
            /\ UNCHANGED <<instances, sessVars, readerVars>>]_vars

\* a write that returned not-found while another session is registered and
\* untouched
C3_Witness ==
    /\ ret = <<"write", NotFoundErr>>
    /\ \E i \in Ids : /\ instances[i] # None
                      /\ written[instances[i]] = <<>>
                      /\ reader[instances[i]] = "reading"

C5_KillAbsentNoop ==
    [][\A c \in Callers :
         Returns(c, "kill_cs") /\ instances[op[c].id] = None
         => /\ ret' = <<"kill", OkRes>>
            /\ UNCHANGED <<instances, sessVars, readerVars>>]_vars

\* a kill returned while the only session, never killed, is still registered
\* and running: the kill was on the other id
C5_Witness ==
    /\ ret = <<"kill", OkRes>>
    /\ \A s \in Sessions : killReq[s] = <<>>
    /\ \E i \in Ids : /\ instances[i] # None
                      /\ child[instances[i]] = "running"
                      /\ reader[instances[i]] = "reading"

\* ------------------------------------------------------------------ C6
\* C6: kill_all empties the registry and calls kill once on the child of
\* every session it removed (and of no other); afterwards pty_write and
\* pty_resize on an id it removed return "Terminal not found", unless a
\* pty_spawn has inserted the id again.
RemovedByKillAll(id) ==
    /\ instances[id] = None
    /\ \E s \in Sessions : sessId[s] = id /\ killReq[s] = <<"kill_all">>
C7_ReaderEmitsOneExit ==
    \A s \in Sessions :
        /\ Cardinality(ExitAt(s)) = (IF reader[s] = "done" THEN 1 ELSE 0)
        /\ DataAt(s) = 1..Len(chunks[s])
        /\ Len(events[s]) = Len(chunks[s]) + Cardinality(ExitAt(s))

\* a reader thread that read a chunk, left its loop and finished
C7_Witness ==
    \E s \in Sessions :
        /\ reader[s] = "done"
        /\ Len(chunks[s]) >= 1
        /\ Len(events[s]) = Len(chunks[s]) + 1

\* ------------------------------------------------------------------ C8
\* C8: a pty_spawn that returns an error leaves the registry as it was and
\* starts no reader thread.
SpawnFails == ret' # ret /\ ret' = <<"spawn", IoErr>>
C8_FailedSpawnNoEffect ==
    [][SpawnFails => UNCHANGED <<instances, reader, nsess, child>>]_vars

\* a pty_spawn failed while a session is registered, and no session exists
\* but that one
C8_Witness ==
    /\ ret = <<"spawn", IoErr>>
    /\ nsess = 1
    /\ InRegistry(1)
    /\ \A s \in Sessions : reader[s] # "none" <=> s = 1

\* ------------------------------------------------------------------ C9
\* C9: a pty_write or pty_resize that returns an I/O error leaves every
\* registry entry as it was; a failed resize leaves the geometry as it was;
\* a failed write made one attempt, so at most the bytes of data reached
\* the writer of that session and nothing reached any other.
C9_FailedIoKeepsEntry ==
    [][\A c \in Callers :
         (Returns(c, "write_cs") \/ Returns(c, "resize_cs")) /\ ret' = <<op[c].kind, IoErr>>
         => LET s == instances[op[c].id] IN
            /\ s # None
            /\ instances' = instances
            /\ UNCHANGED <<nsess, sessId, child, size, killReq, readerVars>>
            /\ \A t \in Sessions \ {s} : written'[t] = written[t]
            /\ op[c].kind = "resize" => written' = written
            /\ \E k \in 0..Len(op[c].data) :
                   written'[s] = written[s] \o SubSeq(op[c].data, 1, k)]_vars

\* a resize failed on a session that is still registered with the geometry
\* it was spawned with
C9_Witness ==
    /\ ret = <<"resize", IoErr>>
    /\ \E i \in Ids : instances[i] # None /\ size[instances[i]] \in SpawnGeoms

\* ----------------------------------------------------------------- C10
\* C10: an id leaves the registry only in the critical section of a
\* pty_kill(id) or of kill_all; in particular pty_write and pty_resize on an
\* id in the registry do not return "Terminal not found", also when the
\* child has exited and the reader thread has finished.
C10_RemovedOnlyByKill ==
    [][/\ \A id \in Ids :
            instances[id] # None /\ instances'[id] = None
            => \E c \in Callers : \/ Returns(c, "kill_cs") /\ op[c].id = id
                                  \/ Returns(c, "kill_all_cs")
       /\ \A c \in Callers :
            (Returns(c, "write_cs") \/ Returns(c, "resize_cs")) /\ instances[op[c].id] # None
            => ret'[2] # NotFoundErr]_vars

\* the child exited on its own, the reader thread finished, the entry is
\* still registered and a write has reached the session
C10_Witness ==
    \E s \in Sessions :
        /\ child[s] = "exited"
        /\ killReq[s] = <<>>
        /\ reader[s] = "done"
        /\ instances[sessId[s]] = s
        /\ ret[1] = "write" /\ ret[2] # NotFoundErr

\* ----------------------------------------------------------------- C11
\* this step is a step of the handler thread c runs, for the command CmdOf(c)
HandlerStep(c) == pc'[c] # pc[c]
CmdOf(c) == IF pc[c] = "idle" THEN op'[c] ELSE op[c]

\* C11: sessions with distinct ids are independent.  A step of a handler of
\* pty_write, pty_resize or pty_kill called with id A leaves the
\* registry entry of every other id as it was and emits no event; a
\* pty_write(A, data) changes the writer of no session but the one
\* registered under A, which receives data when the write returns Ok.  A
\* reader thread emits one event at a time, addressed to the id its session
\* was spawned with, and changes no registry entry and no writer.
C11_SessionsIndependent ==
    [][/\ \A c \in Callers :
            HandlerStep(c) /\ CmdOf(c).kind \in {"write", "resize", "kill"} =>
                LET cmd == CmdOf(c)
                    s == instances[cmd.id]
                IN /\ \A j \in Ids \ {cmd.id} : instances'[j] = instances[j]
                   /\ events' = events
                   /\ \A t \in Sessions :
                         (cmd.kind # "write" \/ t # s) => written'[t] = written[t]
                   /\ Returns(c, "write_cs") /\ ret' = <<"write", OkRes>>
                         => written'[s] = written[s] \o cmd.data
       /\ \A s \in Sessions :
            events'[s] # events[s] =>
                /\ Len(events'[s]) = Len(events[s]) + 1
                /\ SubSeq(events'[s], 1, Len(events[s])) = events[s]
                /\ events'[s][Len(events'[s])].name[3] = sessId[s]
                /\ \A t \in Sessions \ {s} : events'[t] = events[t]
                /\ instances' = instances
                /\ written' = written]_vars

\* two sessions registered under distinct ids: a write reached the writer
\* of one, whose reader emitted a data event addressed to its id, while
\* nothing reached the other and its reader emitted nothing
C11_Witness ==
    \E i \in Ids : \E j \in Ids \ {i} :
        /\ instances[i] # None /\ instances[j] # None
        /\ written[instances[i]] \in WriteInputs
        /\ written[instances[j]] = <<>>
        /\ events[instances[i]] # <<>>
        /\ events[instances[i]][1].name = data_event(i)
        /\ events[instances[j]] = <<>>

\* ----------------------------------------------------------------- C12
\* the payloads of the data events a session's reader emitted, in order
DataPayloads(s) ==
    LET d == SelectSeq(events[s], IsData)
    IN [i \in 1..Len(d) |-> d[i].payload]
\* the concatenation of a sequence of sequences
RECURSIVE Flatten(_)
Flatten(ss) == IF ss = <<>> THEN <<>> ELSE Head(ss) \o Flatten(Tail(ss))
Decoded(cs) == [i \in 1..Len(cs) |-> from_utf8_lossy(cs[i])]

\* C12 as stated: the concatenation of the payloads of a session's data
\* events equals the concatenation of the chunks its reader read.
C12_PayloadsEqualChunks ==
    \A s \in Sessions : Flatten(DataPayloads(s)) = Flatten(chunks[s])

\* C12 amended: the i-th data event of a session carries the lossy decoding
\* of the i-th chunk its reader read -- one event per chunk, none dropped,
\* duplicated or reordered -- and all of them come before the exit event.
C12_DataEventsInReadOrder ==
    \A s \in Sessions :
        /\ DataPayloads(s) = Decoded(chunks[s])
        /\ \A i \in DataAt(s) : \A j \in ExitAt(s) : i < j

\* a reader that read two different chunks, one of them not valid UTF-8,
\* and then emitted its exit event
C12_Witness ==
    \E s \in Sessions :
        /\ Len(chunks[s]) = 2
        /\ chunks[s][1] # chunks[s][2]
        /\ Decoded(chunks[s]) # chunks[s]
        /\ ExitAt(s) = {3}

\* ----------------------------------------------------------------- C13
\* a session that was inserted and is in the registry no more although no
\* kill was ever called on its child: a later insert replaced its entry
Overwritten(s) ==
    /\ s \in 1..nsess
    /\ ~InRegistry(s)
    /\ ~BeforeInsert(s)
    /\ killReq[s] = <<>>
NoHandlerStep == \A c \in Callers : pc'[c] = pc[c]
StartsReader(s) ==
    \E c \in Callers : pc[c] = "spawn_thread" /\ op[c].sess = s /\ pc'[c] = "idle"

C14_KillLeadsToExit ==
    \A s \in Sessions : (killReq[s] # <<>>) ~> (ExitAt(s) # {})

\* C14 amended: once pty_kill or kill_all has removed a session and its
\* child is gone (the kill succeeded, or the child exited by itself), the
\* session's reader thread eventually emits its exit event; pty_kill and
\* kill_all return without touching any reader thread or emitting anything.
C14_KilledChildLeadsToExit ==
    /\ \A s \in Sessions :
          (killReq[s] # <<>> /\ child[s] = "exited") ~> (ExitAt(s) # {})
    /\ [][\A c \in Callers :
            Returns(c, "kill_cs") \/ Returns(c, "kill_all_cs")
            => UNCHANGED <<reader, events>>]_vars

\* pty_kill has returned and the child is gone, while the session's reader
\* thread is still in its loop and has emitted no exit event yet
C14_Witness ==
    /\ ret = <<"kill", OkRes>>
    /\ \E s \in Sessions :
          /\ killReq[s] = <<"kill">>
          /\ child[s] = "exited"
          /\ reader[s] = "reading"
          /\ events[s] = <<>>

\* ----------------------------------------------------------------- C15
\* the positions at which a handler holds the guard of state.instances
CriticalSections == {"spawn_insert", "write_cs", "resize_cs", "kill_cs", "kill_all_cs"}
InCS(c) == pc[c] \in CriticalSections
\* what a command's critical section does to the registry m when it runs alone
Effect(cmd, m) ==
    CASE cmd.kind = "spawn" -> [m EXCEPT ![cmd.id] = cmd.sess]
      [] cmd.kind = "kill" -> [m EXCEPT ![cmd.id] = None]
      [] cmd.kind = "kill_all" -> [i \in Ids |-> None]
      [] OTHER -> m

\* C15: a thread is in a critical section exactly when it holds the lock,
\* so at most one is; a handler takes the lock once, when it enters its
\* critical section, and gives it up when it leaves; the registry changes
\* only in the step that ends a critical section, and that step leaves the
\* registry as the command alone would leave the registry it found: the
\* registry is always the result of the finished critical sections, one
\* after the other in the order they held the lock.
C15_RegistryAccessExclusive ==
    /\ [](\A c \in Callers : InCS(c) <=> lock = c)
    /\ [](Cardinality({c \in Callers : InCS(c)}) <= 1)
    /\ [][/\ \A c \in Callers :
              /\ lock # c /\ lock' = c => lock = Free /\ ~InCS(c) /\ InCS(c)'
              /\ lock = c /\ lock' # c =>
                    /\ lock' = Free
                    /\ ~InCS(c)'
                    /\ instances' = Effect(op[c], instances)
         /\ instances' # instances => \E c \in Callers : lock = c /\ lock' = Free]_vars

\* a pty_write is in its critical section on a registered id while a
\* pty_spawn of the same id, its child allocated, waits for the lock
C15_Witness ==
    \E c \in Callers : \E d \in Callers \ {c} :
        /\ pc[c] = "write_cs" /\ lock = c
        /\ instances[op[c].id] # None
        /\ pc[d] = "spawn_lock"
        /\ op[d].id = op[c].id

\* ----------------------------------------------------------------- C16
\* thread c is in a pty_resize, pty_kill or kill_all that has not returned
Called(c) ==
    pc[c] \in {"resize_lock", "resize_cs", "kill_lock", "kill_cs",
               "kill_all_lock", "kill_all_cs"}

\* C16, for the commands that make no blocking call of their own: every
\* pty_resize, pty_kill and kill_all that has been called eventually
\* returns, whatever the other threads are doing.
C16_CommandsReturn ==
    \A c \in Callers : Called(c) ~> (pc[c] = "idle")

\* ----------------------------------------------------------------- C17
\* the sessions of id whose pty_spawn succeeded: it started their reader
\* thread and returned Ok
Succeeded(id) == {s \in Sessions : sessId[s] = id /\ reader[s] # "none"}
\* the number of events called name that have been emitted by the reader
\* threads of the sessions ss
Emitted(name, ss) ==
    Cardinality(UNION {{<<s, i>> : i \in {j \in 1..Len(events[s]) : events[s][j].name = name}} :
                       s \in ss})

\* C17: a pty_spawn that got past its insert starts the reader thread of
\* its session and returns Ok, whether or not the entry is still in the
\* registry; a reader thread is started by that step only, once per
\* session.  So at most as many exit events have been emitted for an id as
\* pty_spawn calls of the id have succeeded, and no event has been emitted
\* for an id of which no pty_spawn has succeeded.
C17_OneReaderPerSpawn ==
    /\ [](\A id \in Ids :
            /\ Emitted(exit_event(id), Sessions) <= Cardinality(Succeeded(id))
            /\ Succeeded(id) = {} =>
                  Emitted(exit_event(id), Sessions) + Emitted(data_event(id), Sessions) = 0)
    /\ [][/\ \A c \in Callers :
              pc[c] = "spawn_thread" /\ pc'[c] # pc[c] =>
                  /\ reader[op[c].sess] = "none"
                  /\ reader' = [reader EXCEPT ![op[c].sess] = "reading"]
                  /\ ret' = <<"spawn", OkRes>>
         /\ \A s \in Sessions :
              reader[s] # reader'[s] /\ reader'[s] = "reading" =>
                  reader[s] = "none" /\ StartsReader(s)]_vars

\* a pty_kill removed the entry of the only session and killed its child
\* before the pty_spawn started the reader thread: the spawn returned Ok
\* after the kill, and the reader has emitted its exit event
C17_Witness ==
    /\ ret = <<"spawn", OkRes>>
    /\ nsess = 1
    /\ killReq[1] = <<"kill">>
    /\ ~InRegistry(1)
    /\ reader[1] = "done"
    /\ Emitted(exit_event(sessId[1]), Sessions) = 1
====
